---- MODULE Spec2Model ----
(***************************************************************************)
(* ATtiny13A buzzer adapter (src/main.c).                                  *)
(*                                                                         *)
(* The firmware is one main flow (init, mode selection, startup chime and  *)
(* relay polling loop, or the calibration sweep) pre-empted by one         *)
(* interrupt handler (Timer0 compare match A) that toggles the output pin. *)
(* The main flow is modelled statement by statement with a program counter *)
(* and a stack of return labels; the handler, a change of the input line   *)
(* and the removal of power are separate actions that may take place       *)
(* between any two statements.                                             *)
(*                                                                         *)
(* I/O registers are modelled as the set of the bit numbers that are set.  *)
(* Time is counted in microseconds since the watchdog was last reasserted. *)
(***************************************************************************)
EXTENDS Integers, Sequences, FiniteSets

VARIABLES
    pc,            \* label of the next statement of the main flow
    stack,         \* return labels of the calls in progress, innermost first
    PINB,          \* input register: bits that read high (driven from outside)
    DDRB,          \* pin direction register
    PORTB,         \* output level / pull-up register
    TCCR0A,        \* Timer0 control register A
    TCCR0B,        \* Timer0 control register B
    TIMSK0,        \* Timer0 interrupt mask
    OCR0A,         \* Timer0 compare register (the divisor)
    SREG_I,        \* global interrupt enable
    wdt_on,        \* watchdog enabled
    wdt,           \* microseconds since the watchdog was enabled or reasserted
    eeprom,        \* non-volatile storage, address -> byte
    current_freq,  \* volatile uint16_t current_freq
    sound_on,      \* main(): uint8_t sound_on
    freq,          \* auto_sweep_mode(): loop variable uint16_t freq
    b_freq,        \* beep(): parameter freq
    duration_ms,   \* beep() / pause(): parameter duration_ms
    ts_freq,       \* tone_start(): parameter freq
    sv_freq,       \* save_freq_to_eeprom(): parameter freq
    sv_i,          \* save_freq_to_eeprom(): index of the next byte write
    obs            \* observations of the run (history, not program state)

hw   == <<DDRB, PORTB, TCCR0A, TCCR0B, TIMSK0, OCR0A, SREG_I>>
loc  == <<current_freq, sound_on, freq, b_freq, duration_ms, ts_freq, sv_freq, sv_i>>
vars == <<pc, stack, PINB, DDRB, PORTB, TCCR0A, TCCR0B, TIMSK0, OCR0A, SREG_I,
          wdt_on, wdt, eeprom, current_freq, sound_on, freq, b_freq,
          duration_ms, ts_freq, sv_freq, sv_i, obs>>

(***************************************************************************)
(* Program constants.                                                      *)
(***************************************************************************)
BUZZER_PIN        == 3
SIGNAL_PIN        == 1
DEFAULT_FREQ      == 2500
EEPROM_FREQ_ADDR  == 0
EEPROM_MAGIC_ADDR == 2
EEPROM_MAGIC      == 171
FREQ_MIN          == 2400
FREQ_MAX          == 3000
FREQ_STEP         == 100
BEEP_SHORT_MS     == 100
BEEP_LONG_MS      == 400
PAUSE_SHORT_MS    == 100
PAUSE_LONG_MS     == 300
CALIB_TONE_MS     == 1500
CALIB_PAUSE_MS    == 500
\* The build's clock: 1200000 or 9600000 (#if F_CPU ... #error).
F_CPU             == 1200000
WDTO_250MS        == 250000
\* Time one EEPROM byte write takes (erase and write, device data sheet); the
\* model takes a byte write as complete when eeprom_write_byte returns.
EEPROM_WRITE_US   == 3400

\* Bit numbers inside the timer registers.
WGM01  == "WGM01"
CS01   == "CS01"
OCIE0A == "OCIE0A"

U8  == 256
U16 == 65536

(***************************************************************************)
(* Bounds of the model.                                                    *)
(***************************************************************************)
\* Number of completed polling iterations the history keeps.
MaxHist == 3


(***************************************************************************)
(* Pure helpers.                                                           *)
(***************************************************************************)
SymDiff(reg, bit) == IF bit \in reg THEN reg \ {bit} ELSE reg \cup {bit}

\* uint8_t fc_wants_sound(void): !(PINB & (1 << SIGNAL_PIN))
fc_wants_sound_active_high(pinb) == SIGNAL_PIN \in pinb
fc_wants_sound(pinb) == SIGNAL_PIN \notin pinb

\* Level of the input line as an observer sees it.
Level(pinb) == IF SIGNAL_PIN \in pinb THEN "HIGH" ELSE "LOW"

eeprom_read_byte(ee, addr) == ee[addr]

\* avr-libc stores a word little-endian: low byte at addr, high byte at addr+1.
eeprom_read_word(ee, addr) == ee[addr] + U8 * ee[addr + 1]

\* The byte writes eeprom_write_byte(addr, val) performs, in order.
eeprom_write_byte(addr, val) == << <<addr, val % U8>> >>

\* The byte writes eeprom_write_word(addr, val) performs, in order.
eeprom_write_word_big_endian(addr, val) ==
    << <<addr, (val \div U8) % U8>>, <<addr + 1, val % U8>> >>
eeprom_write_word(addr, val) ==
    << <<addr, val % U8>>, <<addr + 1, (val \div U8) % U8>> >>

\* The byte writes of save_freq_to_eeprom(freq), in order: value, then marker.
save_freq_to_eeprom_no_marker(f) == eeprom_write_word(EEPROM_FREQ_ADDR, f)
save_freq_to_eeprom(f) ==
    eeprom_write_word(EEPROM_FREQ_ADDR, f)
        \o eeprom_write_byte(EEPROM_MAGIC_ADDR, EEPROM_MAGIC)

\* Storage after one byte write.
WriteByte(ee, w) == [ee EXCEPT ![w[1]] = w[2]]

\* Storage after a sequence of byte writes has completed.
RECURSIVE WriteAll(_, _)
WriteAll(ee, ws) ==
    IF ws = <<>> THEN ee ELSE WriteAll(WriteByte(ee, Head(ws)), Tail(ws))

\* uint16_t load_freq_from_eeprom(void): the value returned and the addresses read.
\* load_freq_from_eeprom() returning whatever word a valid marker covers.
load_freq_no_validation(ee) ==
    LET magic == eeprom_read_byte(ee, EEPROM_MAGIC_ADDR) IN
    IF magic # EEPROM_MAGIC
    THEN [ret |-> DEFAULT_FREQ, reads |-> {EEPROM_MAGIC_ADDR}]
    ELSE [ret |-> eeprom_read_word(ee, EEPROM_FREQ_ADDR),
          reads |-> {EEPROM_MAGIC_ADDR, EEPROM_FREQ_ADDR, EEPROM_FREQ_ADDR + 1}]
load_freq_exclusive_bound(ee) ==
    LET magic == eeprom_read_byte(ee, EEPROM_MAGIC_ADDR) IN
    IF magic # EEPROM_MAGIC
    THEN [ret |-> DEFAULT_FREQ, reads |-> {EEPROM_MAGIC_ADDR}]
    ELSE LET f     == eeprom_read_word(ee, EEPROM_FREQ_ADDR)
             reads == {EEPROM_MAGIC_ADDR, EEPROM_FREQ_ADDR, EEPROM_FREQ_ADDR + 1}
         IN  IF f <= 2400 \/ f > 4500
             THEN [ret |-> DEFAULT_FREQ, reads |-> reads]
             ELSE [ret |-> f, reads |-> reads]
load_freq_no_lower_bound(ee) ==
    LET magic == eeprom_read_byte(ee, EEPROM_MAGIC_ADDR) IN
    IF magic # EEPROM_MAGIC
    THEN [ret |-> DEFAULT_FREQ, reads |-> {EEPROM_MAGIC_ADDR}]
    ELSE LET f     == eeprom_read_word(ee, EEPROM_FREQ_ADDR)
             reads == {EEPROM_MAGIC_ADDR, EEPROM_FREQ_ADDR, EEPROM_FREQ_ADDR + 1}
         IN  IF f > 4500
             THEN [ret |-> DEFAULT_FREQ, reads |-> reads]
             ELSE [ret |-> f, reads |-> reads]
load_freq_from_eeprom(ee) ==
    LET magic == eeprom_read_byte(ee, EEPROM_MAGIC_ADDR) IN
    IF magic # EEPROM_MAGIC
    THEN [ret |-> DEFAULT_FREQ, reads |-> {EEPROM_MAGIC_ADDR}]
    ELSE LET f     == eeprom_read_word(ee, EEPROM_FREQ_ADDR)
             reads == {EEPROM_MAGIC_ADDR, EEPROM_FREQ_ADDR, EEPROM_FREQ_ADDR + 1}
         IN  IF f < 2400 \/ f > 4500
             THEN [ret |-> DEFAULT_FREQ, reads |-> reads]
             ELSE [ret |-> f, reads |-> reads]

\* The divisor with an 8-bit intermediate: uint8_t ocr_val.
OcrVal_narrow(clk, f) ==
    LET ocr_val == (((clk \div 16) \div f) - 1) % U8
        hi      == IF ocr_val > 255 THEN 255 ELSE ocr_val
        lo      == IF hi < 1 THEN 1 ELSE hi
    IN  lo % U8

\* The divisor without the "- 1".
OcrVal_no_minus_one(clk, f) ==
    LET ocr_val == ((clk \div 16) \div f) % U16
        hi      == IF ocr_val > 255 THEN 255 ELSE ocr_val
        lo      == IF hi < 1 THEN 1 ELSE hi
    IN  lo % U8
\* tone_start(): the value loaded into OCR0A for a frequency > 0 at clock clk.
\* The quotient is unsigned long, the result is stored in a uint16_t.
OcrVal(clk, f) ==
    LET ocr_val == (((clk \div 16) \div f) - 1) % U16
        hi      == IF ocr_val > 255 THEN 255 ELSE ocr_val
        lo      == IF hi < 1 THEN 1 ELSE hi
    IN  lo % U8

\* main(): what one polling iteration does with its sample and sound_on.
RelayDecisionAlways(wants, on) == IF wants THEN "start" ELSE "stop"
RelayDecisionStopUnguarded(wants, on) ==
    IF wants
    THEN IF on = 0 THEN "start" ELSE "none"
    ELSE "stop"
RelayDecision(wants, on) ==
    IF wants
    THEN IF on = 0 THEN "start" ELSE "none"
    ELSE IF on # 0 THEN "stop" ELSE "none"

\* for (...; freq <= FREQ_MAX; freq += FREQ_STEP)
SweepCondStrict(f) == f < FREQ_MAX
SweepCond(f) == f <= FREQ_MAX
SweepNext(f) == (f + FREQ_STEP) % U16

(***************************************************************************)
(* Control: calls and returns.                                             *)
(***************************************************************************)
Frames == <<pc>> \o stack

CalLabels ==
    {"cal_beep1", "cal_pause1", "cal_beep2", "cal_pause2",
     "sw_init", "sw_test", "sw_set", "sw_beep", "sw_pause", "sw_inc"}
SweepLabels == {"sw_init", "sw_test", "sw_set", "sw_beep", "sw_pause", "sw_inc"}
ChimeLabels == {"chime_beep1", "chime_pause1", "chime_beep2", "chime_pause2"}
RelayLabels == {"relay_init", "relay_poll", "relay_on", "relay_off",
                "relay_wdr", "relay_delay"}
BootLabels  == {"init_io", "init_load", "init_wdt", "main_delay", "main_check"}

In(labels)     == \E i \in DOMAIN Frames : Frames[i] \in labels
InCalibration  == In(CalLabels)
InSweep        == In(SweepLabels)
InChime        == In(ChimeLabels)
InRelay        == In(RelayLabels)
InNormal       == InChime \/ InRelay

\* The compare-match interrupt is delivered: a tone is being generated.
ToneActive == OCIE0A \in TIMSK0 /\ SREG_I /\ CS01 \in TCCR0B

Goto(l)      == pc' = l /\ UNCHANGED stack
Call(f, ret) == pc' = f /\ stack' = <<ret>> \o stack
Return       == pc' = Head(stack) /\ stack' = Tail(stack)

(***************************************************************************)
(* Observations.                                                           *)
(***************************************************************************)
NoIter == [sample |-> "none", pre |-> 0, starts |-> 0, stops |-> 0]
NoCut  == [cal |-> FALSE, sweep |-> FALSE, tone |-> 0, save |-> <<>>]
NoSave == 0 - 1

\* obs.boot   : the level sampled by the mode selection of this power cycle
\* obs.loads  : calls of load_freq_from_eeprom() in this power cycle
\* obs.reads  : storage addresses read in this power cycle
\* obs.iter   : the polling iteration in progress
\* obs.hist   : the last MaxHist completed polling iterations
\* obs.log    : events of the current pass of the sweep
\* obs.cut    : what was going on when power was last removed
\* obs.old    : the stored frequency word when the save in progress was called
\* obs.saved  : argument of the last completed save (NoSave if there was none)
ObsBoot ==
    [boot |-> "none", loads |-> 0, reads |-> {}, iter |-> NoIter, hist |-> <<>>,
     log |-> <<>>, cut |-> NoCut, old |-> 0, saved |-> NoSave]

LastN(n, s) == IF Len(s) <= n THEN s ELSE SubSeq(s, Len(s) - n + 1, Len(s))


(***************************************************************************)
(* Initial states.                                                         *)
(***************************************************************************)
MkEeprom(word, magic) ==
    [a \in 0..2 |-> IF a = EEPROM_FREQ_ADDR THEN word % U8
                    ELSE IF a = EEPROM_FREQ_ADDR + 1 THEN (word \div U8) % U8
                    ELSE magic]

\* Storage contents a device can hold at first power-on: erased, or a record
\* left by this or an earlier firmware, or foreign data.
InitWords  == {65535, 0, 2399, 2800, 4500, 4501}
InitMagics == {255, EEPROM_MAGIC}
InitEeprom == {MkEeprom(w, m) : w \in InitWords, m \in InitMagics}

\* State of the CPU after reset, with storage ee and observations o.
Reset(ee, o) ==
    /\ pc = "init_io" /\ stack = <<>>
    /\ DDRB = {} /\ PORTB = {} /\ TCCR0A = {} /\ TCCR0B = {} /\ TIMSK0 = {}
    /\ OCR0A = 0 /\ SREG_I = FALSE
    /\ wdt_on = FALSE /\ wdt = 0
    /\ eeprom = ee
    /\ current_freq = DEFAULT_FREQ
    /\ sound_on = 0 /\ freq = 0 /\ b_freq = 0 /\ duration_ms = 0
    /\ ts_freq = 0 /\ sv_freq = 0 /\ sv_i = 0
    /\ obs = o

Init ==
    /\ PINB \in SUBSET {SIGNAL_PIN}
    /\ \E ee \in InitEeprom : Reset(ee, ObsBoot)

(***************************************************************************)
(* void init(void)                                                         *)
(***************************************************************************)
init_without_load ==
    \/ /\ pc = "init_io"
       /\ DDRB' = (DDRB \cup {BUZZER_PIN}) \ {SIGNAL_PIN}
       /\ PORTB' = (PORTB \ {BUZZER_PIN}) \cup {SIGNAL_PIN}
       /\ Goto("init_wdt")
       /\ UNCHANGED <<PINB, TCCR0A, TCCR0B, TIMSK0, OCR0A, SREG_I, wdt_on, wdt,
                      eeprom, loc, obs>>
    \/ /\ pc = "init_wdt"
       /\ wdt_on' = TRUE /\ wdt' = 0
       /\ obs' = [obs EXCEPT !.cut = NoCut]
       /\ Goto("main_delay")
       /\ UNCHANGED <<PINB, hw, eeprom, loc>>
init ==
    \/ /\ pc = "init_io"
       /\ DDRB' = (DDRB \cup {BUZZER_PIN}) \ {SIGNAL_PIN}
       /\ PORTB' = (PORTB \ {BUZZER_PIN}) \cup {SIGNAL_PIN}
       /\ Goto("init_load")
       /\ UNCHANGED <<PINB, TCCR0A, TCCR0B, TIMSK0, OCR0A, SREG_I, wdt_on, wdt,
                      eeprom, loc, obs>>
    \/ /\ pc = "init_load"
       /\ current_freq' = load_freq_from_eeprom(eeprom).ret
       /\ obs' = [obs EXCEPT !.loads = @ + 1,
                             !.reads = @ \cup load_freq_from_eeprom(eeprom).reads]
       /\ Goto("init_wdt")
       /\ UNCHANGED <<PINB, hw, wdt_on, wdt, eeprom, sound_on, freq, b_freq,
                      duration_ms, ts_freq, sv_freq, sv_i>>
    \/ /\ pc = "init_wdt"
       /\ wdt_on' = TRUE /\ wdt' = 0
       /\ obs' = [obs EXCEPT !.cut = NoCut]
       /\ Goto("main_delay")
       /\ UNCHANGED <<PINB, hw, eeprom, loc>>

(***************************************************************************)
(* Calls of beep() and pause().                                            *)
(***************************************************************************)
CallBeep(f, d, ret) ==
    /\ b_freq' = f /\ duration_ms' = d /\ Call("beep_start", ret)
    /\ UNCHANGED <<PINB, hw, wdt_on, wdt, eeprom, current_freq, sound_on, freq,
                   ts_freq, sv_freq, sv_i>>

CallPause(d, ret) ==
    /\ duration_ms' = d /\ Call("pause_loop", ret)
    /\ UNCHANGED <<PINB, hw, wdt_on, wdt, eeprom, current_freq, sound_on, freq,
                   b_freq, ts_freq, sv_freq, sv_i>>

LogIf(cond, ev) == [obs EXCEPT !.log = IF cond THEN Append(@, ev) ELSE @]

(***************************************************************************)
(* int main(void): stabilization delay and mode selection.                 *)
(* auto_sweep_mode() has no return statement and its outer loop has no     *)
(* exit, so its call is a transfer of control.                             *)
(***************************************************************************)
main_boot ==
    \/ /\ pc = "main_delay"
       /\ wdt' = wdt + 100000
       /\ Goto("main_check")
       /\ UNCHANGED <<PINB, hw, wdt_on, eeprom, loc, obs>>
    \/ /\ pc = "main_check"
       /\ obs' = [obs EXCEPT !.boot = Level(PINB)]
       /\ IF fc_wants_sound(PINB) THEN Goto("cal_beep1") ELSE Goto("chime_beep1")
       /\ UNCHANGED <<PINB, hw, wdt_on, wdt, eeprom, loc>>

(***************************************************************************)
(* int main(void): the two short beeps of a normal start.                  *)
(***************************************************************************)
main_chime_rechecks_line ==
    \/ /\ pc = "chime_beep1"
       /\ CallBeep(current_freq, BEEP_SHORT_MS, "chime_pause1")
       /\ UNCHANGED obs
    \/ /\ pc = "chime_pause1"
       /\ CallPause(PAUSE_SHORT_MS, "chime_beep2")
       /\ UNCHANGED obs
    \/ /\ pc = "chime_beep2"
       /\ CallBeep(current_freq, BEEP_SHORT_MS, "chime_pause2")
       /\ UNCHANGED obs
    \/ /\ pc = "chime_pause2"
       /\ IF fc_wants_sound(PINB)
          THEN Goto("cal_beep1") /\ UNCHANGED <<PINB, hw, wdt_on, wdt, eeprom, loc>>
          ELSE CallPause(200, "relay_init")
       /\ UNCHANGED obs
main_chime ==
    \/ /\ pc = "chime_beep1"
       /\ CallBeep(current_freq, BEEP_SHORT_MS, "chime_pause1")
       /\ UNCHANGED obs
    \/ /\ pc = "chime_pause1"
       /\ CallPause(PAUSE_SHORT_MS, "chime_beep2")
       /\ UNCHANGED obs
    \/ /\ pc = "chime_beep2"
       /\ CallBeep(current_freq, BEEP_SHORT_MS, "chime_pause2")
       /\ UNCHANGED obs
    \/ /\ pc = "chime_pause2"
       /\ CallPause(200, "relay_init")
       /\ UNCHANGED obs

(***************************************************************************)
(* int main(void): the polling loop.                                       *)
(***************************************************************************)
main_relay ==
    \/ /\ pc = "relay_init"
       /\ sound_on' = 0
       /\ Goto("relay_poll")
       /\ UNCHANGED <<PINB, hw, wdt_on, wdt, eeprom, current_freq, freq, b_freq,
                      duration_ms, ts_freq, sv_freq, sv_i, obs>>
    \/ /\ pc = "relay_poll"
       /\ obs' = [obs EXCEPT !.iter = [sample |-> Level(PINB), pre |-> sound_on,
                                       starts |-> 0, stops |-> 0]]
       /\ LET d == RelayDecision(fc_wants_sound(PINB), sound_on) IN
          IF d = "start"
          THEN ts_freq' = current_freq /\ Call("ts_entry", "relay_on")
          ELSE IF d = "stop"
          THEN UNCHANGED ts_freq /\ Call("tp_timsk", "relay_off")
          ELSE UNCHANGED ts_freq /\ Goto("relay_wdr")
       /\ UNCHANGED <<PINB, hw, wdt_on, wdt, eeprom, current_freq, sound_on, freq,
                      b_freq, duration_ms, sv_freq, sv_i>>
    \/ /\ pc = "relay_on"
       /\ sound_on' = 1
       /\ Goto("relay_wdr")
       /\ UNCHANGED <<PINB, hw, wdt_on, wdt, eeprom, current_freq, freq, b_freq,
                      duration_ms, ts_freq, sv_freq, sv_i, obs>>
    \/ /\ pc = "relay_off"
       /\ sound_on' = 0
       /\ Goto("relay_wdr")
       /\ UNCHANGED <<PINB, hw, wdt_on, wdt, eeprom, current_freq, freq, b_freq,
                      duration_ms, ts_freq, sv_freq, sv_i, obs>>
    \/ /\ pc = "relay_wdr"
       /\ wdt' = 0
       /\ Goto("relay_delay")
       /\ UNCHANGED <<PINB, hw, wdt_on, eeprom, loc, obs>>
    \/ /\ pc = "relay_delay"
       /\ wdt' = wdt + 100
       /\ obs' = [obs EXCEPT
             !.hist = LastN(MaxHist, Append(@,
                        [sample |-> obs.iter.sample, pre |-> obs.iter.pre,
                         starts |-> obs.iter.starts, stops |-> obs.iter.stops,
                         post |-> sound_on])),
             !.iter = NoIter]
       /\ Goto("relay_poll")
       /\ UNCHANGED <<PINB, hw, wdt_on, eeprom, loc>>


(***************************************************************************)
(* void tone_start(uint16_t freq)                                          *)
(***************************************************************************)
\* tone_start() with sei() ahead of the test for frequency 0.
tone_start_sei_first ==
    \/ /\ pc = "ts_entry"
       /\ obs' = [LogIf(InSweep, <<"start", ts_freq>>) EXCEPT
                    !.iter = IF InRelay THEN [@ EXCEPT !.starts = @ + 1] ELSE @]
       /\ SREG_I' = TRUE
       /\ IF ts_freq = 0
          THEN Return /\ ts_freq' = 0 /\ UNCHANGED OCR0A
          ELSE OCR0A' = OcrVal(F_CPU, ts_freq) /\ Goto("ts_ddr") /\ UNCHANGED ts_freq
       /\ UNCHANGED <<PINB, DDRB, PORTB, TCCR0A, TCCR0B, TIMSK0, wdt_on,
                      wdt, eeprom, current_freq, sound_on, freq, b_freq,
                      duration_ms, sv_freq, sv_i>>
    \/ /\ pc = "ts_ddr"
       /\ DDRB' = DDRB \cup {BUZZER_PIN}
       /\ Goto("ts_tccr")
       /\ UNCHANGED <<PINB, PORTB, TCCR0A, TCCR0B, TIMSK0, OCR0A, SREG_I, wdt_on,
                      wdt, eeprom, loc, obs>>
    \/ /\ pc = "ts_tccr"
       /\ TCCR0A' = {WGM01}
       /\ TCCR0B' = {CS01}
       /\ Goto("ts_timsk")
       /\ UNCHANGED <<PINB, DDRB, PORTB, TIMSK0, OCR0A, SREG_I, wdt_on, wdt,
                      eeprom, loc, obs>>
    \/ /\ pc = "ts_timsk"
       /\ TIMSK0' = TIMSK0 \cup {OCIE0A}
       /\ Goto("ts_sei")
       /\ UNCHANGED <<PINB, DDRB, PORTB, TCCR0A, TCCR0B, OCR0A, SREG_I, wdt_on,
                      wdt, eeprom, loc, obs>>
    \/ /\ pc = "ts_sei"
       /\ SREG_I' = TRUE
       /\ Return /\ ts_freq' = 0
       /\ UNCHANGED <<PINB, DDRB, PORTB, TCCR0A, TCCR0B, TIMSK0, OCR0A, wdt_on,
                      wdt, eeprom, current_freq, sound_on, freq, b_freq,
                      duration_ms, sv_freq, sv_i, obs>>
tone_start ==
    \/ /\ pc = "ts_entry"
       /\ obs' = [LogIf(InSweep, <<"start", ts_freq>>) EXCEPT
                    !.iter = IF InRelay THEN [@ EXCEPT !.starts = @ + 1] ELSE @]
       /\ IF ts_freq = 0
          THEN Return /\ ts_freq' = 0 /\ UNCHANGED OCR0A
          ELSE OCR0A' = OcrVal(F_CPU, ts_freq) /\ Goto("ts_ddr") /\ UNCHANGED ts_freq
       /\ UNCHANGED <<PINB, DDRB, PORTB, TCCR0A, TCCR0B, TIMSK0, SREG_I, wdt_on,
                      wdt, eeprom, current_freq, sound_on, freq, b_freq,
                      duration_ms, sv_freq, sv_i>>
    \/ /\ pc = "ts_ddr"
       /\ DDRB' = DDRB \cup {BUZZER_PIN}
       /\ Goto("ts_tccr")
       /\ UNCHANGED <<PINB, PORTB, TCCR0A, TCCR0B, TIMSK0, OCR0A, SREG_I, wdt_on,
                      wdt, eeprom, loc, obs>>
    \/ /\ pc = "ts_tccr"
       /\ TCCR0A' = {WGM01}
       /\ TCCR0B' = {CS01}
       /\ Goto("ts_timsk")
       /\ UNCHANGED <<PINB, DDRB, PORTB, TIMSK0, OCR0A, SREG_I, wdt_on, wdt,
                      eeprom, loc, obs>>
    \/ /\ pc = "ts_timsk"
       /\ TIMSK0' = TIMSK0 \cup {OCIE0A}
       /\ Goto("ts_sei")
       /\ UNCHANGED <<PINB, DDRB, PORTB, TCCR0A, TCCR0B, OCR0A, SREG_I, wdt_on,
                      wdt, eeprom, loc, obs>>
    \/ /\ pc = "ts_sei"
       /\ SREG_I' = TRUE
       /\ Return /\ ts_freq' = 0
       /\ UNCHANGED <<PINB, DDRB, PORTB, TCCR0A, TCCR0B, TIMSK0, OCR0A, wdt_on,
                      wdt, eeprom, current_freq, sound_on, freq, b_freq,
                      duration_ms, sv_freq, sv_i, obs>>

(***************************************************************************)
(* void tone_stop(void)                                                    *)
(***************************************************************************)
\* tone_stop() with ^= in place of &= ~ on the output line.
tone_stop_toggles_line ==
    \/ /\ pc = "tp_timsk"
       /\ TIMSK0' = TIMSK0 \ {OCIE0A}
       /\ obs' = [LogIf(InSweep, <<"stop", 0>>) EXCEPT
                    !.iter = IF InRelay THEN [@ EXCEPT !.stops = @ + 1] ELSE @]
       /\ Goto("tp_tccr")
       /\ UNCHANGED <<PINB, DDRB, PORTB, TCCR0A, TCCR0B, OCR0A, SREG_I, wdt_on,
                      wdt, eeprom, loc>>
    \/ /\ pc = "tp_tccr"
       /\ TCCR0A' = {}
       /\ TCCR0B' = {}
       /\ Goto("tp_port")
       /\ UNCHANGED <<PINB, DDRB, PORTB, TIMSK0, OCR0A, SREG_I, wdt_on, wdt,
                      eeprom, loc, obs>>
    \/ /\ pc = "tp_port"
       /\ PORTB' = SymDiff(PORTB, BUZZER_PIN)
       /\ Return
       /\ UNCHANGED <<PINB, DDRB, TCCR0A, TCCR0B, TIMSK0, OCR0A, SREG_I, wdt_on,
                      wdt, eeprom, loc, obs>>
\* tone_stop() forcing the line low before it disables the interrupt.
tone_stop_line_first ==
    \/ /\ pc = "tp_timsk"
       /\ PORTB' = PORTB \ {BUZZER_PIN}
       /\ obs' = [LogIf(InSweep, <<"stop", 0>>) EXCEPT
                    !.iter = IF InRelay THEN [@ EXCEPT !.stops = @ + 1] ELSE @]
       /\ Goto("tp_tccr")
       /\ UNCHANGED <<PINB, DDRB, TCCR0A, TCCR0B, TIMSK0, OCR0A, SREG_I, wdt_on,
                      wdt, eeprom, loc>>
    \/ /\ pc = "tp_tccr"
       /\ TCCR0A' = {}
       /\ TCCR0B' = {}
       /\ Goto("tp_port")
       /\ UNCHANGED <<PINB, DDRB, PORTB, TIMSK0, OCR0A, SREG_I, wdt_on, wdt,
                      eeprom, loc, obs>>
    \/ /\ pc = "tp_port"
       /\ TIMSK0' = TIMSK0 \ {OCIE0A}
       /\ Return
       /\ UNCHANGED <<PINB, DDRB, PORTB, TCCR0A, TCCR0B, OCR0A, SREG_I, wdt_on,
                      wdt, eeprom, loc, obs>>
tone_stop ==
    \/ /\ pc = "tp_timsk"
       /\ TIMSK0' = TIMSK0 \ {OCIE0A}
       /\ obs' = [LogIf(InSweep, <<"stop", 0>>) EXCEPT
                    !.iter = IF InRelay THEN [@ EXCEPT !.stops = @ + 1] ELSE @]
       /\ Goto("tp_tccr")
       /\ UNCHANGED <<PINB, DDRB, PORTB, TCCR0A, TCCR0B, OCR0A, SREG_I, wdt_on,
                      wdt, eeprom, loc>>
    \/ /\ pc = "tp_tccr"
       /\ TCCR0A' = {}
       /\ TCCR0B' = {}
       /\ Goto("tp_port")
       /\ UNCHANGED <<PINB, DDRB, PORTB, TIMSK0, OCR0A, SREG_I, wdt_on, wdt,
                      eeprom, loc, obs>>
    \/ /\ pc = "tp_port"
       /\ PORTB' = PORTB \ {BUZZER_PIN}
       /\ Return
       /\ UNCHANGED <<PINB, DDRB, TCCR0A, TCCR0B, TIMSK0, OCR0A, SREG_I, wdt_on,
                      wdt, eeprom, loc, obs>>

(***************************************************************************)
(* void beep(uint16_t freq, uint16_t duration_ms)                          *)
(***************************************************************************)
\* beep() with > in place of >= in the loop condition.
beep_off_by_one ==
    \/ /\ pc = "beep_start"
       /\ ts_freq' = b_freq
       /\ Call("ts_entry", "beep_loop")
       /\ UNCHANGED <<PINB, hw, wdt_on, wdt, eeprom, current_freq, sound_on, freq,
                      b_freq, duration_ms, sv_freq, sv_i, obs>>
    \/ /\ pc = "beep_loop"
       /\ IF duration_ms > 10
          THEN wdt' = wdt + 10000 /\ Goto("beep_wdr")
          ELSE UNCHANGED wdt /\ Call("tp_timsk", "beep_ret")
       /\ UNCHANGED <<PINB, hw, wdt_on, eeprom, loc, obs>>
    \/ /\ pc = "beep_wdr"
       /\ wdt' = 0
       /\ duration_ms' = duration_ms - 10
       /\ Goto("beep_loop")
       /\ UNCHANGED <<PINB, hw, wdt_on, eeprom, current_freq, sound_on, freq,
                      b_freq, ts_freq, sv_freq, sv_i, obs>>
    \/ /\ pc = "beep_ret"
       /\ Return /\ b_freq' = 0 /\ duration_ms' = 0
       /\ UNCHANGED <<PINB, hw, wdt_on, wdt, eeprom, current_freq, sound_on, freq,
                      ts_freq, sv_freq, sv_i, obs>>
beep ==
    \/ /\ pc = "beep_start"
       /\ ts_freq' = b_freq
       /\ Call("ts_entry", "beep_loop")
       /\ UNCHANGED <<PINB, hw, wdt_on, wdt, eeprom, current_freq, sound_on, freq,
                      b_freq, duration_ms, sv_freq, sv_i, obs>>
    \/ /\ pc = "beep_loop"
       /\ IF duration_ms >= 10
          THEN wdt' = wdt + 10000 /\ Goto("beep_wdr")
          ELSE UNCHANGED wdt /\ Call("tp_timsk", "beep_ret")
       /\ UNCHANGED <<PINB, hw, wdt_on, eeprom, loc, obs>>
    \/ /\ pc = "beep_wdr"
       /\ wdt' = 0
       /\ duration_ms' = duration_ms - 10
       /\ Goto("beep_loop")
       /\ UNCHANGED <<PINB, hw, wdt_on, eeprom, current_freq, sound_on, freq,
                      b_freq, ts_freq, sv_freq, sv_i, obs>>
    \/ /\ pc = "beep_ret"
       /\ Return /\ b_freq' = 0 /\ duration_ms' = 0
       /\ UNCHANGED <<PINB, hw, wdt_on, wdt, eeprom, current_freq, sound_on, freq,
                      ts_freq, sv_freq, sv_i, obs>>

(***************************************************************************)
(* void pause(uint16_t duration_ms)                                        *)
(***************************************************************************)

pause_without_wdr ==
    \/ /\ pc = "pause_loop"
       /\ IF duration_ms >= 10
          THEN wdt' = wdt + 10000 /\ Goto("pause_wdr") /\ UNCHANGED duration_ms
          ELSE UNCHANGED wdt /\ Return /\ duration_ms' = 0
       /\ UNCHANGED <<PINB, hw, wdt_on, eeprom, current_freq, sound_on, freq,
                      b_freq, ts_freq, sv_freq, sv_i, obs>>
    \/ /\ pc = "pause_wdr"
       /\ duration_ms' = duration_ms - 10
       /\ Goto("pause_loop")
       /\ UNCHANGED <<PINB, hw, wdt_on, wdt, eeprom, current_freq, sound_on, freq,
                      b_freq, ts_freq, sv_freq, sv_i, obs>>
pause ==
    \/ /\ pc = "pause_loop"
       /\ IF duration_ms >= 10
          THEN wdt' = wdt + 10000 /\ Goto("pause_wdr") /\ UNCHANGED duration_ms
          ELSE UNCHANGED wdt /\ Return /\ duration_ms' = 0
       /\ UNCHANGED <<PINB, hw, wdt_on, eeprom, current_freq, sound_on, freq,
                      b_freq, ts_freq, sv_freq, sv_i, obs>>
    \/ /\ pc = "pause_wdr"
       /\ wdt' = 0
       /\ duration_ms' = duration_ms - 10
       /\ Goto("pause_loop")
       /\ UNCHANGED <<PINB, hw, wdt_on, eeprom, current_freq, sound_on, freq,
                      b_freq, ts_freq, sv_freq, sv_i, obs>>

(***************************************************************************)
(* void save_freq_to_eeprom(uint16_t freq): one step per byte written.     *)
(***************************************************************************)
save ==
    /\ pc = "sv_write"
    /\ IF sv_i <= Len(save_freq_to_eeprom(sv_freq))
       THEN /\ eeprom' = WriteByte(eeprom, save_freq_to_eeprom(sv_freq)[sv_i])
            /\ sv_i' = sv_i + 1
            /\ wdt' = wdt + EEPROM_WRITE_US
            /\ UNCHANGED <<pc, stack, sv_freq, obs>>
       ELSE /\ Return
            /\ sv_freq' = 0 /\ sv_i' = 0
            /\ obs' = [LogIf(InSweep, <<"save", sv_freq>>) EXCEPT
                         !.saved = sv_freq, !.old = 0]
            /\ UNCHANGED <<eeprom, wdt>>
    /\ UNCHANGED <<PINB, hw, wdt_on, current_freq, sound_on, freq, b_freq,
                   duration_ms, ts_freq>>

(***************************************************************************)
(* void auto_sweep_mode(void)                                              *)
(***************************************************************************)
auto_sweep_mode ==
    \/ /\ pc = "cal_beep1"
       /\ CallBeep(DEFAULT_FREQ, BEEP_LONG_MS, "cal_pause1")
       /\ UNCHANGED obs
    \/ /\ pc = "cal_pause1"
       /\ CallPause(PAUSE_LONG_MS, "cal_beep2")
       /\ UNCHANGED obs
    \/ /\ pc = "cal_beep2"
       /\ CallBeep(DEFAULT_FREQ, BEEP_LONG_MS, "cal_pause2")
       /\ UNCHANGED obs
    \/ /\ pc = "cal_pause2"
       /\ CallPause(500, "sw_init")
       /\ UNCHANGED obs
    \/ /\ pc = "sw_init"
       /\ freq' = FREQ_MIN
       /\ obs' = [obs EXCEPT !.log = <<>>]
       /\ Goto("sw_test")
       /\ UNCHANGED <<PINB, hw, wdt_on, wdt, eeprom, current_freq, sound_on,
                      b_freq, duration_ms, ts_freq, sv_freq, sv_i>>
    \/ /\ pc = "sw_test"
       /\ IF SweepCond(freq)
          THEN /\ sv_freq' = freq /\ sv_i' = 1
               /\ Call("sv_write", "sw_set")
               /\ obs' = [obs EXCEPT
                            !.old = eeprom_read_word(eeprom, EEPROM_FREQ_ADDR)]
               /\ UNCHANGED <<PINB, hw, wdt_on, wdt, eeprom, current_freq,
                              sound_on, freq, b_freq, duration_ms, ts_freq>>
          ELSE /\ CallPause(1000, "sw_init")
               /\ obs' = LogIf(TRUE, <<"pause", 1000>>)
    \/ /\ pc = "sw_set"
       /\ current_freq' = freq
       /\ Goto("sw_beep")
       /\ UNCHANGED <<PINB, hw, wdt_on, wdt, eeprom, sound_on, freq, b_freq,
                      duration_ms, ts_freq, sv_freq, sv_i, obs>>
    \/ /\ pc = "sw_beep"
       /\ CallBeep(freq, CALIB_TONE_MS, "sw_pause")
       /\ UNCHANGED obs
    \/ /\ pc = "sw_pause"
       /\ CallPause(CALIB_PAUSE_MS, "sw_inc")
       /\ obs' = LogIf(TRUE, <<"pause", CALIB_PAUSE_MS>>)
    \/ /\ pc = "sw_inc"
       /\ freq' = SweepNext(freq)
       /\ Goto("sw_test")
       /\ UNCHANGED <<PINB, hw, wdt_on, wdt, eeprom, current_freq, sound_on,
                      b_freq, duration_ms, ts_freq, sv_freq, sv_i, obs>>

(***************************************************************************)
(* ISR(TIM0_COMPA_vect): runs to completion between two statements of the  *)
(* main flow whenever the compare-match interrupt is enabled and delivered.*)
(***************************************************************************)
\* The handler writing the whole port register instead of toggling one bit.
ISR_writes_port ==
    /\ OCIE0A \in TIMSK0 /\ SREG_I
    /\ PORTB' = IF BUZZER_PIN \in PORTB THEN {} ELSE {BUZZER_PIN}
    /\ UNCHANGED <<pc, stack, PINB, DDRB, TCCR0A, TCCR0B, TIMSK0, OCR0A, SREG_I,
                   wdt_on, wdt, eeprom, loc, obs>>
ISR ==
    /\ OCIE0A \in TIMSK0 /\ SREG_I
    /\ PORTB' = SymDiff(PORTB, BUZZER_PIN)
    /\ UNCHANGED <<pc, stack, PINB, DDRB, TCCR0A, TCCR0B, TIMSK0, OCR0A, SREG_I,
                   wdt_on, wdt, eeprom, loc, obs>>

(***************************************************************************)
(* The outside world: the host drives the input line, the operator removes *)
(* and restores power.                                                     *)
(***************************************************************************)
LineChange ==
    /\ PINB' = SymDiff(PINB, SIGNAL_PIN)
    /\ UNCHANGED <<pc, stack, hw, wdt_on, wdt, eeprom, loc, obs>>

\* What an interrupted byte write can leave in the cell besides the old and
\* the new value: the cell erased, or all bits programmed.
TornBytes == {255, 0}

Boot(ee) ==
    /\ pc' = "init_io" /\ stack' = <<>>
    /\ DDRB' = {} /\ PORTB' = {} /\ TCCR0A' = {} /\ TCCR0B' = {} /\ TIMSK0' = {}
    /\ OCR0A' = 0 /\ SREG_I' = FALSE
    /\ wdt_on' = FALSE /\ wdt' = 0
    /\ eeprom' = ee
    /\ current_freq' = DEFAULT_FREQ
    /\ sound_on' = 0 /\ freq' = 0 /\ b_freq' = 0 /\ duration_ms' = 0
    /\ ts_freq' = 0 /\ sv_freq' = 0 /\ sv_i' = 0
    /\ obs' = [ObsBoot EXCEPT
                 !.saved = obs.saved,
                 !.cut = [cal   |-> InCalibration,
                          sweep |-> InSweep,
                          tone  |-> IF ToneActive THEN b_freq ELSE 0,
                          save  |-> IF pc = "sv_write"
                                    THEN <<obs.old, sv_freq>> ELSE <<>>]]
    /\ UNCHANGED PINB

Writing == pc = "sv_write" /\ sv_i <= Len(save_freq_to_eeprom(sv_freq))

PowerLoss ==
    \/ Boot(eeprom)
    \/ /\ Writing
       /\ \E g \in TornBytes :
            Boot(WriteByte(eeprom, <<save_freq_to_eeprom(sv_freq)[sv_i][1], g>>))

(***************************************************************************)
(* The firmware over any number of power cycles.                           *)
(***************************************************************************)
Main ==
    \/ init \/ main_boot \/ main_chime \/ main_relay \/ auto_sweep_mode
    \/ beep \/ pause \/ tone_start \/ tone_stop \/ save

Next == Main \/ ISR \/ LineChange \/ PowerLoss

Spec == Init /\ [][Next]_vars

(***************************************************************************)
(* One power cycle: the CPU keeps executing the main flow.                 *)
(***************************************************************************)
Run == Main \/ ISR \/ LineChange

RunSpec == Init /\ [][Run]_vars /\ WF_vars(Main)


(***************************************************************************)
(* The persistent frequency store on its own: load_freq_from_eeprom() and  *)
(* save_freq_to_eeprom() called in any order on any storage content, every *)
(* call running to completion.                                             *)
(***************************************************************************)
\* Every 16-bit frequency word under these markers, and every 8-bit marker
\* over these frequency words.
StoreMagics == {EEPROM_MAGIC}
StoreWords  == {0, 2399, 2400, 2500, 4500, 4501, 43947, 65535}
StoreContents(ee) ==
    \/ \E w \in 0..(U16 - 1), m \in StoreMagics : ee = MkEeprom(w, m)
    \/ \E w \in StoreWords, m \in 0..(U8 - 1) : ee = MkEeprom(w, m)

\* Arguments of save.
SaveArgs == {0, 2399, 2400, 2500, 2600, 4500, 4501, 43947, 65535}

StoreInit ==
    /\ PINB = {SIGNAL_PIN}
    /\ pc = "st_idle" /\ stack = <<>>
    /\ DDRB = {} /\ PORTB = {} /\ TCCR0A = {} /\ TCCR0B = {} /\ TIMSK0 = {}
    /\ OCR0A = 0 /\ SREG_I = FALSE
    /\ wdt_on = FALSE /\ wdt = 0
    /\ StoreContents(eeprom)
    /\ current_freq = DEFAULT_FREQ
    /\ sound_on = 0 /\ freq = 0 /\ b_freq = 0 /\ duration_ms = 0
    /\ ts_freq = 0 /\ sv_freq = 0 /\ sv_i = 0
    /\ obs = ObsBoot

StoreLoad ==
    /\ pc \in {"st_idle", "st_loaded"}
    /\ current_freq' = load_freq_from_eeprom(eeprom).ret
    /\ obs' = [obs EXCEPT !.reads = load_freq_from_eeprom(eeprom).reads]
    /\ pc' = "st_loaded"
    /\ UNCHANGED <<stack, PINB, hw, wdt_on, wdt, eeprom, sound_on, freq, b_freq,
                   duration_ms, ts_freq, sv_freq, sv_i>>

StoreSave ==
    /\ pc \in {"st_idle", "st_loaded"}
    /\ \E f \in SaveArgs :
         /\ eeprom' = WriteAll(eeprom, save_freq_to_eeprom(f))
         /\ obs' = [obs EXCEPT !.saved = f]
    /\ pc' = "st_idle"
    /\ UNCHANGED <<stack, PINB, hw, wdt_on, wdt, loc>>

StoreNext == StoreLoad \/ StoreSave

StoreSpec == StoreInit /\ [][StoreNext]_vars


(***************************************************************************)
(* Properties.                                                             *)
(***************************************************************************)
StoredWord  == eeprom_read_word(eeprom, EEPROM_FREQ_ADDR)
StoredMagic == eeprom_read_byte(eeprom, EEPROM_MAGIC_ADDR)

\* C1: every completed polling iteration sampled the line once and then made
\* exactly one start call (state becomes SOUNDING) if the sample was low in
\* state SILENT, exactly one stop call (state becomes SILENT) if it was high
\* in state SOUNDING, and no call and no state change otherwise; so after the
\* iteration the state is SOUNDING exactly when its sample was low. The start
\* call of the loop passes current_freq.
RelayIterationContract ==
    /\ \A i \in DOMAIN obs.hist :
         LET r == obs.hist[i] IN
         /\ r.sample \in {"LOW", "HIGH"}
         /\ (r.sample = "LOW" /\ r.pre = 0)
                => (r.starts = 1 /\ r.stops = 0 /\ r.post = 1)
         /\ (r.sample = "HIGH" /\ r.pre = 1)
                => (r.starts = 0 /\ r.stops = 1 /\ r.post = 0)
         /\ ((r.sample = "LOW" /\ r.pre = 1) \/ (r.sample = "HIGH" /\ r.pre = 0))
                => (r.starts = 0 /\ r.stops = 0 /\ r.post = r.pre)
         /\ (r.post = 1) <=> (r.sample = "LOW")
    /\ (pc = "ts_entry" /\ InRelay) => ts_freq = current_freq

\* C1 witness: the history holds a starting, a stopping and an idle iteration.
RelayIterationSeen ==
    /\ \E i \in DOMAIN obs.hist :
         obs.hist[i].sample = "LOW" /\ obs.hist[i].pre = 0 /\ obs.hist[i].starts = 1
    /\ \E i \in DOMAIN obs.hist :
         obs.hist[i].sample = "HIGH" /\ obs.hist[i].pre = 1 /\ obs.hist[i].stops = 1
    /\ \E i \in DOMAIN obs.hist :
         obs.hist[i].sample = "LOW" /\ obs.hist[i].pre = 1

\* Three consecutive completed iterations, the first one starting in SILENT,
\* whose samples were LOW, HIGH, LOW.
LowHighLowAt(i) ==
    /\ i + 2 \in DOMAIN obs.hist
    /\ obs.hist[i].pre = 0
    /\ obs.hist[i].sample = "LOW"
    /\ obs.hist[i + 1].sample = "HIGH"
    /\ obs.hist[i + 2].sample = "LOW"
Starts(i) == obs.hist[i].starts + obs.hist[i + 1].starts + obs.hist[i + 2].starts
Stops(i)  == obs.hist[i].stops + obs.hist[i + 1].stops + obs.hist[i + 2].stops

\* C2 as stated: samples LOW, HIGH, LOW from SILENT take the state to SOUNDING
\* and back to SILENT with exactly one start and exactly one stop call over
\* the three iterations.
LowHighLowOneStartOneStop ==
    \A i \in DOMAIN obs.hist :
        LowHighLowAt(i) =>
            /\ obs.hist[i].post = 1
            /\ obs.hist[i + 1].post = 0
            /\ Starts(i) = 1
            /\ Stops(i) = 1

\* C2 amended: samples LOW, HIGH, LOW from SILENT take the state to SOUNDING,
\* to SILENT and to SOUNDING again, with exactly two start calls and exactly
\* one stop call over the three iterations.
LowHighLowTwoStartsOneStop ==
    \A i \in DOMAIN obs.hist :
        LowHighLowAt(i) =>
            /\ obs.hist[i].post = 1
            /\ obs.hist[i + 1].post = 0
            /\ obs.hist[i + 2].post = 1
            /\ Starts(i) = 2
            /\ Stops(i) = 1

\* C2 witness: three such iterations have completed.
LowHighLowSeen == \E i \in DOMAIN obs.hist : LowHighLowAt(i)

\* C3: within one power cycle the mode follows the one sample taken after the
\* stabilization delay: before it the flow is in initialization; after a low
\* sample it is in the calibration procedure for good (never the chime, never
\* the polling loop); after a high sample it is in the chime or the polling
\* loop for good (never the calibration procedure), it plays both chime beeps
\* at current_freq and reaches the polling loop.
ChimeBeep(ret) ==
    pc = "beep_loop" /\ stack = <<ret>> /\ ToneActive /\ b_freq = current_freq
ModeFixedAtBoot ==
    /\ [](obs.boot = "none" <=> pc \in BootLabels)
    /\ [](obs.boot = "LOW" => (InCalibration /\ ~InNormal))
    /\ [](obs.boot = "HIGH" => (InNormal /\ ~InCalibration))
    /\ [][obs.boot # "none" => obs.boot' = obs.boot]_vars
    /\ (pc = "chime_beep1") ~> ChimeBeep("chime_pause1")
    /\ ChimeBeep("chime_pause1") ~> ChimeBeep("chime_pause2")
    /\ ChimeBeep("chime_pause2") ~> (pc = "relay_poll")
    /\ (obs.boot = "HIGH") ~> (pc = "relay_poll")

\* C3 witness: booted with the line high, the polling loop has completed
\* iterations with the line low, and the flow is still in the polling loop.
NormalModeWithLineLow ==
    /\ obs.boot = "HIGH"
    /\ pc = "relay_poll"
    /\ Level(PINB) = "LOW"
    /\ Len(obs.hist) >= 1

\* C4 as stated: when power is removed while a tone is audible anywhere in
\* calibration mode (confirmation beeps included), the next boot loads the
\* frequency that was playing.
AudibleIsLoadedInCalibration ==
    (pc = "init_wdt" /\ obs.cut.cal /\ obs.cut.tone # 0)
        => current_freq = obs.cut.tone

\* C4 amended: when power is removed while a tone of the sweep is audible
\* (the confirmation beeps excluded), the next boot loads the frequency that
\* was playing.
AudibleIsLoadedInSweep ==
    (pc = "init_wdt" /\ obs.cut.sweep /\ obs.cut.tone # 0)
        => current_freq = obs.cut.tone

\* C4 witness: power was removed during the 2900 Hz tone of the sweep and the
\* boot that followed loaded 2900.
SweepToneReloaded ==
    /\ pc = "init_wdt"
    /\ obs.cut.sweep
    /\ obs.cut.tone = 2900
    /\ current_freq = 2900

\* C5 as stated: when power is removed anywhere inside save(f), a store that
\* carries the valid marker holds a completely written frequency: the one the
\* store held when save was called, or f.
MarkerCommitsFrequency ==
    (obs.cut.save # <<>> /\ StoredMagic = EEPROM_MAGIC)
        => StoredWord \in {obs.cut.save[1], obs.cut.save[2]}


\* What load must return for a storage content, stated independently of the
\* code: the stored word under the sentinel 0xAB when it is in [2400, 4500],
\* else 2500.
Expected(magic, word) ==
    IF magic = 171 /\ 2400 <= word /\ word <= 4500 THEN word ELSE 2500

\* C6: for every storage content load() returns the stored frequency iff the
\* marker is 0xAB and the frequency is in [2400, 4500], and 2500 otherwise;
\* with a marker that does not match it reads no byte of the frequency field;
\* it never changes the storage.
LoadContract ==
    /\ [](pc = "st_loaded" =>
            /\ current_freq = Expected(eeprom[2], eeprom[0] + 256 * eeprom[1])
            /\ (eeprom[2] # 171 => obs.reads \cap {0, 1} = {})
            /\ 2 \in obs.reads)
    /\ [][pc' = "st_loaded" => eeprom' = eeprom]_vars

\* C6 witness: load has returned the upper bound 4500 from a valid record.
LoadedUpperBound ==
    /\ pc = "st_loaded"
    /\ eeprom[2] = 171
    /\ eeprom[0] + 256 * eeprom[1] = 4500
    /\ current_freq = 4500
    /\ obs.saved = NoSave

\* C7: a load after any sequence of completed saves returns the argument of
\* the last save if it is in [2400, 4500] and 2500 if it is not; a load with
\* no save before it on a store whose marker is not the sentinel returns 2500.
LastSaveWins ==
    pc = "st_loaded" =>
        IF obs.saved # NoSave
        THEN current_freq =
                (IF 2400 <= obs.saved /\ obs.saved <= 4500 THEN obs.saved ELSE 2500)
        ELSE (eeprom[2] # 171 => current_freq = 2500)

\* C7 witness: 2600 was saved last, over a store that held something else,
\* and load returned 2600.
Loaded2600AfterSave ==
    /\ pc = "st_loaded"
    /\ obs.saved = 2600
    /\ current_freq = 2600

\* C8: the store changes only inside a save called by the sweep, so it never
\* changes while the flow is in the chime or the polling loop; load is called
\* once per power cycle, in initialization before the mode-selection sample,
\* and nothing else reads the store.
StoreWrittenBySweepReadAtBoot ==
    /\ [][eeprom' # eeprom => (pc = "sv_write" /\ InSweep)]_vars
    /\ [][(InNormal /\ InNormal') => eeprom' = eeprom]_vars
    /\ [](obs.loads <= 1)
    /\ [](pc \notin {"init_io", "init_load"} => obs.loads = 1)
    /\ [](obs.boot # "none" => obs.loads = 1)
    /\ [][obs.reads' # obs.reads => (pc = "init_load" \/ pc' = "init_io")]_vars

\* C8 witness: a power cycle in normal mode over a record a sweep of an
\* earlier power cycle wrote.
NormalModeAfterCalibration ==
    /\ InRelay
    /\ Len(obs.hist) = MaxHist
    /\ obs.saved = 2700
    /\ StoredWord = 2700
    /\ obs.loads = 1

\* C9: every frequency passed to start is in [2400, 4500], and in
\* [2400, 3000] inside the sweep; current_freq is always in [2400, 4500].
StartFrequencyInRange ==
    /\ current_freq \in 2400..4500
    /\ pc = "ts_entry" => ts_freq \in 2400..4500
    /\ (pc = "ts_entry" /\ InSweep) => ts_freq \in 2400..3000

\* C9 witness: the polling loop starts a tone at 4500 Hz loaded from storage.
RelayStartsAt4500 ==
    /\ pc = "ts_entry"
    /\ InRelay
    /\ ts_freq = 4500

\* The events of one pass of the sweep, in order.
Candidates == <<2400, 2500, 2600, 2700, 2800, 2900, 3000>>
RECURSIVE PassOf(_)
PassOf(cs) ==
    IF cs = <<>> THEN <<>>
    ELSE << <<"save", Head(cs)>>, <<"start", Head(cs)>>, <<"stop", 0>>,
            <<"pause", 500>> >> \o PassOf(Tail(cs))
FullPass == PassOf(Candidates) \o << <<"pause", 1000>> >>
IsPrefix(a, b) == Len(a) <= Len(b) /\ a = SubSeq(b, 1, Len(a))
Playing(f) ==
    /\ InSweep /\ ToneActive /\ b_freq = f
    /\ StoredWord = f /\ StoredMagic = 171

\* C10: every pass of the sweep handles 2400, 2500, ..., 3000 in ascending
\* order, for each of them completing the save (value and marker) before the
\* start call, then playing, then pausing; the loop variable never wraps; and
\* once in calibration mode every candidate is persisted and played again and
\* again.
SweepOrderAndRecurrence ==
    /\ [](IsPrefix(obs.log, FullPass))
    /\ []((pc = "sw_init" /\ obs.log # <<>>) => obs.log = FullPass)
    /\ []((pc = "ts_entry" /\ InSweep) => (StoredWord = ts_freq /\ StoredMagic = 171))
    /\ [][(InSweep /\ freq' # freq) => (freq' = 2400 \/ freq' = freq + 100)]_vars
    /\ [](freq <= 3100)
    /\ \A i \in DOMAIN Candidates : InCalibration ~> Playing(Candidates[i])

\* C10 witness: a complete pass has been made and the next one is about to
\* start.
FullPassCompleted == pc = "sw_init" /\ obs.log = FullPass

\* C11: the watchdog is reasserted in every iteration of the polling loop and
\* after every 10 ms sub-delay of beep and pause, and while it is enabled the
\* time since it was enabled or last reasserted stays below its 250 ms
\* timeout, storage writes of the sweep included: it never expires.
WatchdogNeverExpires ==
    /\ [](wdt_on => wdt < WDTO_250MS)
    /\ [](pc \notin {"init_io", "init_load", "init_wdt"} => wdt_on)
    /\ [](pc = "relay_delay" => wdt = 0)
    /\ [](pc = "relay_poll" => wdt <= 100)
    /\ [](pc \in {"beep_wdr", "pause_wdr"} => wdt >= 10000)
    /\ [][(pc \in {"beep_wdr", "pause_wdr", "relay_wdr"} /\ pc' # pc) => wdt' = 0]_vars
    /\ [][wdt' = wdt + 10000 => pc' \in {"beep_wdr", "pause_wdr"}]_vars

\* C11 witness: the longest gap of the sweep, from the reassertion that ends
\* a pause over the three storage writes to the end of the first sub-delay of
\* the tone.
SweepGapAfterSave ==
    /\ pc = "beep_wdr"
    /\ InSweep
    /\ wdt = 10000 + 3 * EEPROM_WRITE_US

(***************************************************************************)
(* The tone generator on its own: tone_start(), tone_stop() and beep()     *)
(* called in any order with any of the arguments below on an initialized   *)
(* device, the handler pre-empting them wherever it is enabled.            *)
(***************************************************************************)
\* Durations 0..MaxDuration and the largest uint16_t.
MaxDuration == 25
ToneArgs  == {0, 1, 2500, U16 - 1}
BeepArgs  == (0..MaxDuration) \cup {U16 - 1}

\* The timer is off, its interrupt masked and the output line low.
Stopped ==
    /\ OCIE0A \notin TIMSK0
    /\ TCCR0A = {} /\ TCCR0B = {}
    /\ BUZZER_PIN \notin PORTB

\* obs.test : the call under test: operation, arguments, and whether the
\*            generator was stopped when it was called
\* obs.clk  : the clock the divisor is computed for
NoTest  == [op |-> "none", f |-> 0, d |-> 0, quiet |-> TRUE]
ObsTest ==
    [boot |-> "none", loads |-> 0, reads |-> {}, iter |-> NoIter, hist |-> <<>>,
     log |-> <<>>, cut |-> NoCut, old |-> 0, saved |-> NoSave,
     test |-> NoTest, clk |-> F_CPU]

TestRets == {"t_ret_start0", "t_ret_start", "t_ret_stop", "t_ret_stop2", "t_ret_beep"}

\* The device after init() has run.
ToneInit ==
    /\ PINB = {SIGNAL_PIN}
    /\ pc = "t_idle" /\ stack = <<>>
    /\ DDRB = {BUZZER_PIN} /\ PORTB = {SIGNAL_PIN}
    /\ TCCR0A = {} /\ TCCR0B = {} /\ TIMSK0 = {}
    /\ OCR0A = 0 /\ SREG_I = FALSE
    /\ wdt_on = TRUE /\ wdt = 0
    /\ eeprom = MkEeprom(U16 - 1, U8 - 1)
    /\ current_freq = DEFAULT_FREQ
    /\ sound_on = 0 /\ freq = 0 /\ b_freq = 0 /\ duration_ms = 0
    /\ ts_freq = 0 /\ sv_freq = 0 /\ sv_i = 0
    /\ obs = ObsTest

TestStart ==
    /\ pc = "t_idle"
    /\ \E f \in ToneArgs :
         /\ ts_freq' = f
         /\ Call("ts_entry", IF f = 0 THEN "t_ret_start0" ELSE "t_ret_start")
         /\ obs' = [obs EXCEPT
                      !.test = [op |-> "start", f |-> f, d |-> 0, quiet |-> Stopped]]
    /\ UNCHANGED <<PINB, hw, wdt_on, wdt, eeprom, current_freq, sound_on, freq,
                   b_freq, duration_ms, sv_freq, sv_i>>

\* tone_stop(), and tone_stop() once more right after it has returned.
TestStop ==
    /\ pc \in {"t_idle", "t_ret_stop"}
    /\ Call("tp_timsk", IF pc = "t_ret_stop" THEN "t_ret_stop2" ELSE "t_ret_stop")
    /\ obs' = [obs EXCEPT
                 !.test = [op |-> "stop", f |-> 0, d |-> 0, quiet |-> Stopped]]
    /\ UNCHANGED <<PINB, hw, wdt_on, wdt, eeprom, loc>>

TestBeep ==
    /\ pc = "t_idle"
    /\ \E f \in ToneArgs, d \in BeepArgs :
         /\ b_freq' = f /\ duration_ms' = d
         /\ obs' = [obs EXCEPT
                      !.test = [op |-> "beep", f |-> f, d |-> d, quiet |-> Stopped]]
    /\ Call("beep_start", "t_ret_beep")
    /\ UNCHANGED <<PINB, hw, wdt_on, wdt, eeprom, current_freq, sound_on, freq,
                   ts_freq, sv_freq, sv_i>>

TestDone ==
    /\ pc \in TestRets
    /\ pc' = "t_idle"
    /\ obs' = [obs EXCEPT !.test = NoTest]
    /\ UNCHANGED <<stack, PINB, hw, wdt_on, wdt, eeprom, loc>>

ToneNext ==
    \/ TestStart \/ TestStop \/ TestBeep \/ TestDone
    \/ tone_start \/ tone_stop \/ beep \/ ISR

ToneSpec == ToneInit /\ [][ToneNext]_vars

\* C12: tone_start(0) is a no-op whether a tone is playing or not: the step
\* that executes the call returns at once to its caller and leaves the
\* divisor register, the timer configuration, the compare-match interrupt
\* enable, the global interrupt enable and the direction and level of the
\* output line as they were.
StartZeroIsNoOp ==
    [][(pc = "ts_entry" /\ ts_freq = 0 /\ pc' # pc)
         => /\ pc' = Head(stack) /\ stack' = Tail(stack)
            /\ UNCHANGED <<OCR0A, TCCR0A, TCCR0B, TIMSK0, SREG_I, DDRB, PORTB>>]_vars

\* C12 witness: tone_start(0) has returned while a tone started earlier is
\* still playing.
StartZeroWhilePlaying ==
    /\ pc = "t_ret_start0"
    /\ obs.test.op = "start" /\ obs.test.f = 0 /\ ~obs.test.quiet
    /\ ToneActive

\* The main flow is inside tone_stop().
InStop == pc \in {"tp_timsk", "tp_tccr", "tp_port"}

\* C13: tone_stop() is idempotent: after it has returned the interrupt is
\* disabled, the timer is off and the line is low; no step of tone_stop() taken
\* in that state changes any register; and no step of a tone_stop() that
\* directly follows another one changes any register, whatever the state
\* before the first one was.
StopIsIdempotent ==
    /\ [](pc \in {"t_ret_stop", "t_ret_stop2"} => Stopped)
    /\ [][(InStop /\ Stopped /\ pc' # pc) => UNCHANGED hw]_vars
    /\ [][(InStop /\ Head(stack) = "t_ret_stop2" /\ pc' # pc) => UNCHANGED hw]_vars

\* C13 witness: the second of two consecutive tone_stop() calls has returned,
\* the first one having stopped a tone started earlier.
StoppedTwiceAfterTone ==
    /\ pc = "t_ret_stop2"
    /\ SREG_I /\ OCR0A = OcrVal(F_CPU, 2500)
    /\ Stopped

\* The tone generator with the main flow never stopping inside a call.
ToneFairSpec == ToneSpec /\ WF_vars(tone_start \/ tone_stop \/ beep)

\* beep(0, d) is under test, called with the generator stopped.
SilentBeep == obs.test.op = "beep" /\ obs.test.f = 0 /\ obs.test.quiet

\* Milliseconds of the duration under test that beep() has waited so far: it
\* takes 10 off duration_ms after each _delay_ms(10).
Waited == obs.test.d - duration_ms

\* C14 as stated: beep(0, d) has waited the full d milliseconds when its loop
\* is over, for every d.
BeepZeroWaitsFullDuration ==
    (SilentBeep /\ pc = "beep_ret") => Waited = obs.test.d

\* C14: for every duration d, beep(0, d) called on a stopped generator never
\* enables the compare-match interrupt and keeps the line low throughout; it
\* waits in 10 ms sub-delays, each followed by a watchdog reassertion and a
\* decrement of the remaining duration by 10; the loop ends with less than
\* 10 ms remaining, after 10 * (d \div 10) ms, which is d when d is a multiple
\* of 10 and up to 9 ms short of it otherwise; the remaining duration stays in
\* 0..d, and the call returns.
BeepZeroContract ==
    /\ []((SilentBeep /\ pc # "t_idle")
            => (OCIE0A \notin TIMSK0 /\ BUZZER_PIN \notin PORTB))
    /\ []((SilentBeep /\ pc = "beep_ret")
            => (Waited = 10 * (obs.test.d \div 10) /\ duration_ms < 10))
    /\ [](obs.test.op = "beep" => duration_ms \in 0..obs.test.d)
    /\ [][(pc = "beep_loop" /\ pc' = "beep_wdr")
            => (duration_ms >= 10 /\ wdt' = wdt + 10000 /\ UNCHANGED duration_ms)]_vars
    /\ [][(pc = "beep_wdr" /\ pc' # pc)
            => (wdt' = 0 /\ duration_ms' = duration_ms - 10 /\ pc' = "beep_loop")]_vars
    /\ [][duration_ms' < duration_ms => pc \in {"beep_wdr", "beep_ret"}]_vars
    /\ (SilentBeep /\ pc = "beep_start") ~> (SilentBeep /\ pc = "t_ret_beep")

\* C14 witness: beep(0, d) is about to return after at least one sub-delay
\* with part of d still not waited.
SilentBeepEndsShort ==
    /\ SilentBeep /\ pc = "beep_ret"
    /\ Waited >= 10
    /\ duration_ms > 0

\* C15: an invocation of the compare-match handler inverts the level bit of the
\* output line and changes nothing else, wherever it pre-empts the main flow:
\* the pull-up bit of the input pin, the pin directions, the timer and
\* interrupt configuration, the divisor, the current frequency, the relay
\* state, the persistent storage and the position of the main flow are as
\* before.
HandlerFrame ==
    [][ISR => /\ (BUZZER_PIN \in PORTB') # (BUZZER_PIN \in PORTB)
              /\ PORTB' \ {BUZZER_PIN} = PORTB \ {BUZZER_PIN}
              /\ (SIGNAL_PIN \in PORTB') = (SIGNAL_PIN \in PORTB)
              /\ UNCHANGED <<DDRB, TCCR0A, TCCR0B, TIMSK0, SREG_I, OCR0A>>
              /\ UNCHANGED <<current_freq, sound_on, eeprom>>
              /\ UNCHANGED <<pc, stack, PINB, wdt_on, wdt, loc, obs>>]_vars

\* C15 witness: the handler has driven the line high while the relay is
\* sounding, and the pull-up of the input pin is still on.
HandlerRaisedLineInRelay ==
    /\ pc = "relay_poll" /\ sound_on = 1
    /\ BUZZER_PIN \in PORTB
    /\ SIGNAL_PIN \in PORTB

(***************************************************************************)
(* The divisor computation of tone_start() on its own, for every non-zero  *)
(* frequency and for both clock rates the source can be built for.         *)
(***************************************************************************)
F_CPU_FAST == 9600000
Clocks     == {F_CPU, F_CPU_FAST}

OcrInit ==
    /\ PINB = {SIGNAL_PIN}
    /\ pc = "ocr_idle" /\ stack = <<>>
    /\ DDRB = {BUZZER_PIN} /\ PORTB = {SIGNAL_PIN}
    /\ TCCR0A = {} /\ TCCR0B = {} /\ TIMSK0 = {}
    /\ OCR0A = 0 /\ SREG_I = FALSE
    /\ wdt_on = TRUE /\ wdt = 0
    /\ eeprom = MkEeprom(U16 - 1, U8 - 1)
    /\ current_freq = DEFAULT_FREQ
    /\ sound_on = 0 /\ freq = 0 /\ b_freq = 0 /\ duration_ms = 0
    /\ ts_freq \in 1..(U16 - 1)
    /\ sv_freq = 0 /\ sv_i = 0
    /\ \E clk \in Clocks : obs = [ObsTest EXCEPT !.clk = clk]

\* ocr_val = (clock / 16 / freq) - 1; clamp; OCR0A = (uint8_t)ocr_val
OcrLoad ==
    /\ pc = "ocr_idle"
    /\ OCR0A' = OcrVal(obs.clk, ts_freq)
    /\ pc' = "ocr_done"
    /\ UNCHANGED <<stack, PINB, DDRB, PORTB, TCCR0A, TCCR0B, TIMSK0, SREG_I,
                   wdt_on, wdt, eeprom, loc, obs>>

OcrSpec == OcrInit /\ [][OcrLoad]_vars

\* C16: for every frequency f in 1..65535 and for both clock rates, the
\* divisor loaded into the 8-bit register is clock / (2 * 8 * f) - 1, computed
\* over the unbounded integers, clamped to [1, 255]; in particular it is in
\* [1, 255].
DivisorIsClampedIdeal ==
    pc = "ocr_done" =>
        LET ideal == (obs.clk \div (2 * 8 * ts_freq)) - 1
        IN  /\ OCR0A = IF ideal > 255 THEN 255 ELSE IF ideal < 1 THEN 1 ELSE ideal
            /\ OCR0A \in 1..255

\* C16 witness: at 9.6 MHz and 9 Hz the value before truncation to 16 bits
\* exceeds 65535, and the loaded divisor is 255.
DivisorAfterTruncation ==
    /\ pc = "ocr_done"
    /\ obs.clk = F_CPU_FAST /\ ts_freq = 9
    /\ ((obs.clk \div 16) \div ts_freq) - 1 >= U16
    /\ OCR0A = 255

\* C17: for every frequency f of the sweep range [FREQ_MIN, FREQ_MAX] and the
\* divisor n loaded for it, f lies within one step of the effective frequency:
\* clock / (16 * (n + 2)) < f <= clock / (16 * (n + 1)), stated without
\* division as f * 16 * (n + 1) <= clock < f * 16 * (n + 2); and a higher
\* frequency of the range never gets a larger divisor, hence never a lower
\* effective frequency.
EffectiveFrequencyWithinStep ==
    (pc = "ocr_done" /\ ts_freq \in FREQ_MIN..FREQ_MAX) =>
        /\ ts_freq * 16 * (OCR0A + 1) <= obs.clk
        /\ obs.clk < ts_freq * 16 * (OCR0A + 2)
        /\ \A g \in ts_freq..FREQ_MAX :
             /\ OcrVal(obs.clk, g) <= OCR0A
             /\ obs.clk \div (16 * (OCR0A + 1))
                  <= obs.clk \div (16 * (OcrVal(obs.clk, g) + 1))

\* C17 witness: the divisor for the lowest sweep frequency at 1.2 MHz is 30,
\* an effective 2419 Hz, and a higher sweep frequency has a smaller divisor.
SweepDivisorLoaded ==
    /\ pc = "ocr_done"
    /\ obs.clk = F_CPU /\ ts_freq = FREQ_MIN
    /\ OCR0A = 30
    /\ obs.clk \div (16 * (OCR0A + 1)) = 2419
    /\ OcrVal(obs.clk, FREQ_MAX) < OCR0A

\* A tone is active: the main flow is between a call of tone_start() and the
\* return of the tone_stop() that follows it.
InTone ==
    \/ pc \in {"ts_entry", "ts_ddr", "ts_tccr", "ts_timsk", "ts_sei"}
    \/ InStop
    \/ pc \in {"beep_loop", "beep_wdr"}
    \/ pc = "relay_on"
    \/ pc \in {"relay_wdr", "relay_delay", "relay_poll"} /\ sound_on = 1

StartStopAlternate ==
    /\ pc = "ts_entry" => (OCIE0A \notin TIMSK0 /\ ts_freq # 0)
    /\ pc = "tp_timsk" => OCIE0A \in TIMSK0

\* C19 witness: the relay enters tone_start() again after an earlier tone of
\* its own has been stopped.
RelayStartsAgain ==
    /\ pc = "ts_entry" /\ InRelay
    /\ Len(obs.hist) > 0
    /\ \E i \in DOMAIN obs.hist : obs.hist[i].stops = 1

\* C20: at every polling instant of the relay loop, whatever the storage held
\* at boot, sound_on is 1 exactly when the compare-match interrupt is enabled;
\* a tone_start() called by the relay has a non-zero frequency and has enabled
\* the interrupt when it returns.
RelayFlagMatchesGenerator ==
    /\ pc = "relay_poll" => (sound_on \in {0, 1} /\ (sound_on = 1 <=> OCIE0A \in TIMSK0))
    /\ pc = "relay_on" => OCIE0A \in TIMSK0
    /\ (pc = "ts_entry" /\ InRelay) => ts_freq # 0

\* C20 witness: a polling instant with the relay sounding on a device whose
\* storage holds the frequency 0 under a valid marker.
RelaySoundingWithStoredZero ==
    /\ pc = "relay_poll" /\ sound_on = 1
    /\ OCIE0A \in TIMSK0
    /\ StoredMagic = EEPROM_MAGIC /\ StoredWord = 0

====
